---- MODULE Spec2Model ----
(***************************************************************************)
(* Model of src/src/videoCache.js (Prebid.js video cache): the Batcher     *)
(* (batchingCache), the StoreOrchestrator (storeBatch / store /            *)
(* shimStorageCallback), and the LocalCacheStore (storeLocally,            *)
(* getLocalCachedBidWithGam, the auction-expiry cleanup handler).          *)
(*                                                                         *)
(* JavaScript values are encoded as follows.  Strings are TLA+ strings.    *)
(* `undefined` for the module-level numbers batchSize / batchTimeout is    *)
(* the number Undefined (0): the code only ever compares them with `>=`    *)
(* and `>`, comparisons that are false for undefined exactly as they are   *)
(* for 0 against a positive length, and the config subscriber never stores *)
(* a value <= 0 in batchSize.  A bid object is identified by its index in  *)
(* `bids`; a batch entry {auctionInstance, bidResponse, afterBidAdded} is  *)
(* the index of its bid.                                                   *)
(***************************************************************************)
EXTENDS Integers, Sequences, FiniteSets, TLC

\* ------------------------------------------------------------------ bounds
\* Number of bid objects created in one behaviour.
MaxBids == 3
\* Largest value of cache.batchSize delivered by a configuration update.
MaxK == 3
\* Number of bids stored locally.
MaxLocalBids == 2
\* Number of bids handed to storeBatch, and largest batch handed to it, where
\* the store responses are enumerated.
MaxStored == 3
MaxBatch == 3
\* Number of bids handed to storeBatch where the payloads are enumerated.
MaxPuts == 2

\* ------------------------------------------------------- program constants
\* `let batchSize, batchTimeout, cleanupHandler;` : not yet assigned.
Undefined == 0
\* const ttlBufferInSeconds = 15;
ttlBufferInSeconds == 15
\* export const LOCAL_CACHE_MOCK_URL = 'https://local.prebid.org/cache?bidder=';
LOCAL_CACHE_MOCK_URL == "https://local.prebid.org/cache?bidder="

\* ----------------------------------------------------------- record shapes
\* bid.videoCacheKey before storeBatch assigns it.
NoKey == "undefined"

\* A bid as the auction layer hands it over (no cache key yet).
\* vastImpUrl is the list of impression trackers (empty: none).  The bid
\* lives 30 seconds, bid.bidder is its bidder code, and it has no
\* customCacheKey, unless changed with EXCEPT.
Bid(auctionId, bidderCode, adId, vastXml, vastUrl, vastImpUrl) ==
  [auctionId |-> auctionId, bidderCode |-> bidderCode, adId |-> adId,
   vastXml |-> vastXml, vastUrl |-> vastUrl, vastImpUrl |-> vastImpUrl,
   videoCacheKey |-> NoKey, ttl |-> 30, bidder |-> bidderCode, requestId |-> "req",
   customCacheKey |-> ""]

\* A payload of the request, as toStorageRequest builds it.  A field the
\* payload does not have is "undefined" (Undefined for the timestamp).
Put(bidder, type, value, ttlseconds, bidid, aid, timestamp, key) ==
  [bidder |-> bidder, type |-> type, value |-> value, ttlseconds |-> ttlseconds,
   bidid |-> bidid, aid |-> aid, timestamp |-> timestamp, key |-> key]

\* done(error, cacheIds): the arguments of a videoCacheStoreCallback.
StoreResult(error, ids) == [error |-> error, ids |-> ids]

\* One element of the "responses" list of a store response: null, or an
\* object with a uuid.
CacheId(null, uuid) == [null |-> null, uuid |-> uuid]

\* A response body: whether JSON.parse(body).responses can be evaluated,
\* whether it is truthy, and the list it holds.
Body(valid, hasResponses, responses) ==
  [valid |-> valid, hasResponses |-> hasResponses, responses |-> responses]

\* An invocation of getLocalCachedBidWithGam: the bidder and ad id read from
\* the tag URL's cust_params, whether the fetch is still awaited, and, once it
\* is done, response.ok, the fetched text, whether a string was returned, and
\* that string.
\* `known` is the number of bids that existed at the call (history).
Gam(hb_bidder, hb_adid, known, status, ok, doc, returned, result) ==
  [hb_bidder |-> hb_bidder, hb_adid |-> hb_adid, known |-> known, status |-> status,
   ok |-> ok, doc |-> doc, returned |-> returned, result |-> result]

\* The objects storeBatch's callback acts on.
StoreState(bs, ad, cb) == [bids |-> bs, added |-> ad, afterBidAdded |-> cb]

\* A request handed to ajax by store(): the batch it stores, the flush that
\* issued it (history), and, once the response is in, how ajax replied
\* ("transport": the error handler; "parse", "protocol", "list": the success
\* handler with a body that does not parse, lacks "responses", holds a list)
\* and what done() received.  `puts` is requestData.puts.
Call(batch, flushNo, status, reply, res, puts) ==
  [batch |-> batch, flush |-> flushNo, status |-> status, reply |-> reply,
   error |-> res.error, ids |-> res.ids, puts |-> puts]

\* A debounce window that ended (history): whether a timer ended it, the
\* values of batchSize at its submits, and the number of its submits.
Window(delayed, sizes, count) == [delayed |-> delayed, sizes |-> sizes, count |-> count]

VARIABLES
  \* configuration as seen by the module
  batchSize,        \* let batchSize      (Undefined until the first update)
  batchTimeout,     \* let batchTimeout   (Undefined until the first update)
  cleanupHandler,   \* let cleanupHandler (TRUE once onExpiry is subscribed)
  onExpiry,         \* number of handlers passed to auctionManager.onExpiry so far
  useLocal,         \* cache.useLocal of the latest update
  cacheUrl,         \* config.getConfig('cache.url')
  vastTrack,        \* config.getConfig('cache.vasttrack')
  \* the Batcher's closure state
  batches,          \* let batches = [[]]
  debouncing,       \* let debouncing = false
  timer,            \* number of callbacks handed to setTimeout and not yet run
  forEach,          \* batches.forEach(cache) in progress: <<index of the next batch,
                    \* number of batches when it began, whether a timer began it>>;
                    \* <<0, 0, FALSE>> when none is
  \* bid objects (owned by the auction layer, mutated by this module)
  bids,             \* sequence of bid records, in creation order
  \* the network: every request handed to ajax, with its outcome
  calls,
  \* the acceptance path: bids passed to addBidToAuction, in order
  added,
  \* per bid, the invocations of its entry's afterBidAdded: for each, how many
  \* bids had been passed to addBidToAuction when it was invoked
  afterBidAdded,
  \* history of the debounce windows (for the statements about a window)
  winSizes,         \* values of batchSize in force at the submits queued now
  winCount,         \* number of submits queued now
  flushes,          \* one record per flush that ran
  \* LocalCacheStore
  vastsLocalCache,  \* export const vastsLocalCache = new Map(), as a set of <<key, value>>
  gam,              \* getLocalCachedBidWithGam invocations
  \* history of the local cache (for the statements about stored bids)
  fresh,            \* bids stored locally whose own auction has not expired since
  live              \* bids stored locally whose key was not stored again, nor
                    \* removed by a handled expiry, since
vars == <<batchSize, batchTimeout, cleanupHandler, onExpiry, useLocal, cacheUrl, vastTrack, batches, debouncing,
          timer, forEach, bids, calls, added, afterBidAdded, winSizes, winCount,
          flushes, vastsLocalCache, gam, fresh, live>>

cfgVars == <<batchSize, batchTimeout, cleanupHandler, onExpiry, useLocal, cacheUrl, vastTrack>>
batchVars == <<batches, debouncing, timer, forEach>>
histVars == <<winSizes, winCount, flushes>>
storeVars == <<calls, added, afterBidAdded>>
localVars == <<vastsLocalCache, gam, fresh, live>>

\* ---------------------------------------------------------------- helpers
Range(s) == {s[i] : i \in DOMAIN s}

RECURSIVE SumLen(_)
SumLen(ss) == IF ss = <<>> THEN 0 ELSE Len(Head(ss)) + SumLen(Tail(ss))

RECURSIVE Flatten(_)
Flatten(ss) == IF ss = <<>> THEN <<>> ELSE Head(ss) \o Flatten(Tail(ss))

CeilDiv(n, k) == (n + k - 1) \div k

\* The largest number of a finite set of naturals (0 for the empty set).
MaxOf(S) == IF S = {} THEN 0 ELSE CHOOSE m \in S : \A n \in S : n <= m

\* The first position at or after `from` where `pat` occurs in the string
\* `str`, 0 if there is none (String.prototype.indexOf, 1-based).
RECURSIVE IndexFrom(_, _, _)
IndexFrom(str, pat, from) ==
  IF from + Len(pat) - 1 > Len(str) THEN 0
  ELSE IF SubSeq(str, from, from + Len(pat) - 1) = pat THEN from
  ELSE IndexFrom(str, pat, from + 1)

\* Variant: every occurrence is replaced (replaceAll).
RECURSIVE ReplaceFirst_All(_, _, _)
ReplaceFirst_All(str, pat, by) ==
  LET at == IndexFrom(str, pat, 1)
  IN  IF at = 0 THEN str
      ELSE SubSeq(str, 1, at - 1) \o by
             \o ReplaceFirst_All(SubSeq(str, at + Len(pat), Len(str)), pat, by)

\* str.replace(pat, by) for a string pattern and a replacement without `$`:
\* the first occurrence is replaced, the others stay.
ReplaceFirst(str, pat, by) ==
  LET at == IndexFrom(str, pat, 1)
  IN  IF at = 0 THEN str
      ELSE SubSeq(str, 1, at - 1) \o by \o SubSeq(str, at + Len(pat), Len(str))

\* ------------------------------------------------------------------- Init
Init ==
  /\ batchSize = Undefined
  /\ batchTimeout = Undefined
  /\ cleanupHandler = FALSE
  /\ onExpiry = 0
  /\ useLocal = FALSE
  /\ cacheUrl = "undefined"
  /\ vastTrack = FALSE
  /\ batches = << <<>> >>
  /\ debouncing = FALSE
  /\ timer = 0
  /\ forEach = <<0, 0, FALSE>>
  /\ bids = <<>>
  /\ calls = <<>>
  /\ added = <<>>
  /\ afterBidAdded = <<>>
  /\ winSizes = {}
  /\ winCount = 0
  /\ flushes = <<>>
  /\ vastsLocalCache = {}
  /\ gam = <<>>
  /\ fresh = {}
  /\ live = {}

\* ---------------------------------------------------------- configuration
\* The subscriber of config.getConfig('cache', ...).  A raw value of 0 stands
\* for any value that fails `typeof v === 'number' && v > 0`.
NormBatchSize(cache) == IF cache.batchSize > 0 THEN cache.batchSize ELSE 1

NormBatchTimeout(cache) == IF cache.batchTimeout > 0 THEN cache.batchTimeout ELSE 0

\* Variant: the handler is subscribed at every update that enables the mode.
Subscribes_EveryUpdate(cache) == cache.useLocal

\* `if (cache.useLocal && !cleanupHandler)`, line 246.
Subscribes(cache) == cache.useLocal /\ ~cleanupHandler

\* The value auctionManager.onExpiry returns is kept in cleanupHandler: the
\* handle of the subscription, which is truthy.
SetConfig(cache) ==
  /\ batchSize' = NormBatchSize(cache)
  /\ batchTimeout' = NormBatchTimeout(cache)
  /\ cleanupHandler' = (cleanupHandler \/ Subscribes(cache))
  /\ onExpiry' = IF Subscribes(cache) THEN onExpiry + 1 ELSE onExpiry
  /\ useLocal' = cache.useLocal
  /\ cacheUrl' = cache.url
  /\ vastTrack' = cache.vasttrack
  /\ UNCHANGED <<batchVars, bids, storeVars, histVars, localVars>>

\* ------------------------------------------------------ RequestTranslator
\* wrapURI(uri, impTrackerURLs), lines 47-63, for an array of trackers.
RECURSIVE Impressions(_)
Impressions(trks) ==
  IF trks = <<>> THEN ""
  ELSE "<Impression><![CDATA[" \o Head(trks) \o "]]></Impression>" \o Impressions(Tail(trks))

wrapURI(uri, impTrackerURLs) ==
  "<VAST version=\"3.0\">\n    <Ad>\n      <Wrapper>\n"
    \o "        <AdSystem>prebid.org wrapper</AdSystem>\n"
    \o "        <VASTAdTagURI><![CDATA[" \o uri \o "]]></VASTAdTagURI>\n"
    \o "        " \o Impressions(impTrackerURLs) \o "\n"
    \o "        <Creatives></Creatives>\n      </Wrapper>\n    </Ad>\n  </VAST>"

\* function getVastValue(bid), lines 147-149
getVastValue(bid) ==
  IF bid.vastXml # "" THEN bid.vastXml ELSE wrapURI(bid.vastUrl, bid.vastImpUrl)

\* index.getAuction(bid): the auctions the auction manager knows, and
\* auction.getAuctionStart().
IndexedAuctions == {"A", "B"}

getAuctionStart(auctionId) == IF auctionId = "A" THEN 1000 ELSE 2000

\* `const ttlWithBuffer = Number(bid.ttl) + ttlBufferInSeconds`, line 81, for
\* a ttl that is a number.
\* Variant: the buffer is left out.
ttlWithBuffer_NoBuffer(bid) == bid.ttl

ttlWithBuffer(bid) == bid.ttl + ttlBufferInSeconds

\* function toStorageRequest(bid), lines 78-103.
toStorageRequest(bid) ==
  Put(IF vastTrack THEN bid.bidder ELSE "undefined",
      "xml",
      getVastValue(bid),
      ttlWithBuffer(bid),
      IF vastTrack THEN bid.requestId ELSE "undefined",
      IF vastTrack THEN bid.auctionId ELSE "undefined",
      IF bid.auctionId \in IndexedAuctions THEN getAuctionStart(bid.auctionId) ELSE Undefined,
      IF bid.customCacheKey # "" THEN bid.customCacheKey ELSE "undefined")

\* ------------------------------------------------------- StoreOrchestrator
\* storeBatch(batch) -> store(bids, done): one request handed to ajax, with
\* puts: bids.map(toStorageRequest).  `bds` are the bid objects as they are
\* at the call; `flush` numbers the flush that issued the call (history).
StoreBatch(cs, bds, batch, flushNo) ==
  Append(cs, Call(batch, flushNo, "inflight", "none", StoreResult(FALSE, <<>>),
                  [i \in DOMAIN batch |-> toStorageRequest(bds[batch[i]])]))

\* batches.forEach(cache), left to right.
\* Variant: one call for everything that is queued.
ForEachCache_OneCall(cs, bds, bs, flushNo) ==
  StoreBatch(cs, bds, Flatten(bs), flushNo)

\* Variant: the batches are taken from the last to the first.
RECURSIVE ForEachCache_Backwards(_, _, _, _)
ForEachCache_Backwards(cs, bds, bs, flushNo) ==
  IF bs = <<>> THEN cs
  ELSE ForEachCache_Backwards(StoreBatch(cs, bds, bs[Len(bs)], flushNo), bds,
                              SubSeq(bs, 1, Len(bs) - 1), flushNo)

RECURSIVE ForEachCache(_, _, _, _)
ForEachCache(cs, bds, bs, flushNo) ==
  IF bs = <<>> THEN cs
  ELSE ForEachCache(StoreBatch(cs, bds, Head(bs), flushNo), bds, Tail(bs), flushNo)

\* ----------------------------------------------------------------- Batcher
\* `if (batches[batches.length - 1].length >= batchSize) batches.push([])`:
\* with batchSize undefined the comparison is false.
\* Variant: `>` for `>=`.
BatchIsFull_Greater(batch) == batchSize # Undefined /\ Len(batch) > batchSize

BatchIsFull(batch) == batchSize # Undefined /\ Len(batch) >= batchSize

\* Variant: the entry goes to the first batch, not to the one just opened.
PushEntry_First(bs, entry) ==
  LET opened == IF BatchIsFull(bs[Len(bs)]) THEN Append(bs, <<>>) ELSE bs
  IN  [opened EXCEPT ![1] = Append(@, entry)]

\* Lines 262-266: open a new batch if the last one is full, then push.
PushEntry(bs, entry) ==
  LET opened == IF BatchIsFull(bs[Len(bs)]) THEN Append(bs, <<>>) ELSE bs
  IN  [opened EXCEPT ![Len(opened)] = Append(@, entry)]

\* Variant: the callback forgets `debouncing = false`.
FlushCallback_StillDebouncing(bds, bs, sizes, count, delayed) ==
  /\ calls' = ForEachCache(calls, bds, bs, Len(flushes) + 1)
  /\ batches' = << <<>> >>
  /\ debouncing' = debouncing
  /\ flushes' = Append(flushes, Window(delayed, sizes, count))
  /\ winSizes' = {}
  /\ winCount' = 0

\* Variant: the callback forgets `batches = [[]]`.
FlushCallback_KeepBatches(bds, bs, sizes, count, delayed) ==
  /\ calls' = ForEachCache(calls, bds, bs, Len(flushes) + 1)
  /\ batches' = bs
  /\ debouncing' = FALSE
  /\ flushes' = Append(flushes, Window(delayed, sizes, count))
  /\ winSizes' = {}
  /\ winCount' = 0

\* The callback of lines 270-274 applied to the batches `bs` of the bid
\* objects `bds`; `sizes` and `count` describe the debounce window that ends
\* (history).
FlushCallback(bds, bs, sizes, count, delayed) ==
  /\ calls' = ForEachCache(calls, bds, bs, Len(flushes) + 1)
  /\ batches' = << <<>> >>
  /\ debouncing' = FALSE
  /\ flushes' = Append(flushes, Window(delayed, sizes, count))
  /\ winSizes' = {}
  /\ winCount' = 0

\* `const batchFunc = batchTimeout > 0 ? timeout : noTimeout`, line 261; with
\* batchTimeout undefined the comparison is false.
\* Variant: the callback always goes to the timer.
UsesTimeout_Always == TRUE

UsesTimeout == batchTimeout # Undefined /\ batchTimeout > 0

\* batchAndStore(auctionInstance, bidResponse, afterBidAdded), lines 260-276.
\* With batchTimeout > 0 the callback goes to setTimeout; otherwise noTimeout
\* runs it before the handler returns.
Submit(bid) ==
  /\ Len(bids) < MaxBids
  /\ bids' = Append(bids, bid)
  /\ afterBidAdded' = Append(afterBidAdded, <<>>)
  /\ LET pushed == PushEntry(batches, Len(bids) + 1)
         sizes == winSizes \cup {batchSize}
         count == winCount + 1
     IN  IF debouncing
         THEN /\ batches' = pushed
              /\ winSizes' = sizes
              /\ winCount' = count
              /\ UNCHANGED <<debouncing, timer, calls, flushes>>
         ELSE IF UsesTimeout
         THEN /\ batches' = pushed
              /\ debouncing' = TRUE
              /\ timer' = timer + 1
              /\ winSizes' = sizes
              /\ winCount' = count
              /\ UNCHANGED <<calls, flushes>>
         ELSE /\ FlushCallback(Append(bids, bid), pushed, sizes, count, FALSE)
              /\ UNCHANGED timer
  /\ UNCHANGED <<cfgVars, forEach, added, localVars>>

\* The timer handed to setTimeout fires.
TimerFire ==
  /\ timer > 0
  /\ timer' = timer - 1
  /\ FlushCallback(bids, batches, winSizes, winCount, TRUE)
  /\ UNCHANGED <<cfgVars, forEach, bids, added, afterBidAdded, localVars>>

\* ------------------------------------------- Batcher, the flush in steps
\* The same code with the flush callback of lines 270-274 taken one call of
\* `cache` at a time: the store function, or what it calls, may call the
\* Batcher again before it returns.  Nothing else runs while the callback
\* does.
Flushing == forEach[1] > 0

\* The handler of lines 260-276 up to the call of batchFunc; if noTimeout
\* is used the flush callback starts before the handler returns.  Called
\* while a flush runs, it is a call from inside the store function, which
\* forEach has called for at least one batch then.
SubmitInSteps(bid) ==
  /\ Len(bids) < MaxBids
  /\ Flushing => forEach[1] > 1
  /\ bids' = Append(bids, bid)
  /\ afterBidAdded' = Append(afterBidAdded, <<>>)
  /\ batches' = PushEntry(batches, Len(bids) + 1)
  /\ winSizes' = winSizes \cup {batchSize}
  /\ winCount' = winCount + 1
  /\ IF debouncing
     THEN UNCHANGED <<debouncing, timer, forEach>>
     ELSE /\ debouncing' = TRUE
          /\ IF UsesTimeout
             THEN timer' = timer + 1 /\ UNCHANGED forEach
             ELSE forEach' = <<1, Len(batches'), FALSE>> /\ UNCHANGED timer
  /\ UNCHANGED <<cfgVars, calls, added, flushes, localVars>>

\* The timer fires (no flush is running: the callbacks do not interleave)
\* and batches.forEach(cache) begins; forEach visits the batches the array
\* holds when it begins.
TimerFireInSteps ==
  /\ ~Flushing
  /\ timer > 0
  /\ timer' = timer - 1
  /\ forEach' = <<1, Len(batches), TRUE>>
  /\ UNCHANGED <<cfgVars, batches, debouncing, bids, storeVars, histVars, localVars>>

\* forEach calls cache(batches[i]): storeBatch maps the batch, as it is now,
\* to the bids of the request (line 208) and hands them to store.
CacheNextBatch ==
  /\ Flushing
  /\ forEach[1] <= forEach[2]
  /\ calls' = StoreBatch(calls, bids, batches[forEach[1]], Len(flushes) + 1)
  /\ forEach' = <<forEach[1] + 1, forEach[2], forEach[3]>>
  /\ UNCHANGED <<cfgVars, batches, debouncing, timer, bids, added, afterBidAdded,
                 histVars, localVars>>

\* forEach is through: `batches = [[]]; debouncing = false;`.
FlushEnd ==
  /\ Flushing
  /\ forEach[1] > forEach[2]
  /\ batches' = << <<>> >>
  /\ debouncing' = FALSE
  /\ forEach' = <<0, 0, FALSE>>
  /\ flushes' = Append(flushes, Window(forEach[3], winSizes, winCount))
  /\ winSizes' = {}
  /\ winCount' = 0
  /\ UNCHANGED <<cfgVars, timer, bids, storeVars, localVars>>

\* -------------------------------------------------------- ResponseAdapter
\* shimStorageCallback(done).success(responseBody).  A body is
\* [valid, hasResponses, responses]: whether JSON.parse succeeds (and yields
\* something of which `.responses` can be read), whether `.responses` is
\* truthy, and the list it holds.  The result is done's arguments.
ShimSuccess(body) ==
  IF ~body.valid THEN StoreResult(TRUE, <<>>)
  ELSE IF body.hasResponses THEN StoreResult(FALSE, body.responses)
  ELSE StoreResult(TRUE, <<>>)

\* shimStorageCallback(done).error(statusText, responseBody)
ShimError(statusText) == StoreResult(TRUE, <<>>)

\* export function getCacheUrl(id)
getCacheUrl(id) == cacheUrl \o "?uuid=" \o id

\* The body of cacheIds.forEach, lines 219-229, from position i on, acting on
\* st = [bids, added, afterBidAdded].  An element of the response is
\* [null, uuid]; reading `.uuid` of a null element throws a TypeError, which
\* ends the forEach (and the callback) with the earlier positions done.
\* Variant: the playback URL is always replaced by the retrieval URL.
RECURSIVE ForEachCacheId_Overwrite(_, _, _, _)
ForEachCacheId_Overwrite(st, batch, cacheIds, i) ==
  IF i > Len(cacheIds) THEN st
  ELSE IF cacheIds[i].null THEN st
  ELSE IF cacheIds[i].uuid = "" THEN ForEachCacheId_Overwrite(st, batch, cacheIds, i + 1)
  ELSE LET b == batch[i]
           keyed == [st.bids[b] EXCEPT !.videoCacheKey = cacheIds[i].uuid]
           urled == [keyed EXCEPT !.vastUrl = getCacheUrl(keyed.videoCacheKey)]
       IN  ForEachCacheId_Overwrite(StoreState([st.bids EXCEPT ![b] = urled],
                                                Append(st.added, b),
                                                [st.afterBidAdded EXCEPT ![b] = Append(@, Len(st.added) + 1)]),
                                    batch, cacheIds, i + 1)

\* Variant: afterBidAdded is invoked for a rejected key as well.
RECURSIVE ForEachCacheId_AlwaysCallback(_, _, _, _)
ForEachCacheId_AlwaysCallback(st, batch, cacheIds, i) ==
  IF i > Len(cacheIds) THEN st
  ELSE IF cacheIds[i].null THEN st
  ELSE IF cacheIds[i].uuid = ""
  THEN ForEachCacheId_AlwaysCallback(
         StoreState(st.bids, st.added,
                    [st.afterBidAdded EXCEPT ![batch[i]] = Append(@, Len(st.added))]),
         batch, cacheIds, i + 1)
  ELSE LET b == batch[i]
           keyed == [st.bids[b] EXCEPT !.videoCacheKey = cacheIds[i].uuid]
           urled == IF keyed.vastUrl = ""
                    THEN [keyed EXCEPT !.vastUrl = getCacheUrl(keyed.videoCacheKey)]
                    ELSE keyed
       IN  ForEachCacheId_AlwaysCallback(
             StoreState([st.bids EXCEPT ![b] = urled],
                        Append(st.added, b),
                        [st.afterBidAdded EXCEPT ![b] = Append(@, Len(st.added) + 1)]),
             batch, cacheIds, i + 1)

RECURSIVE ForEachCacheId(_, _, _, _)
ForEachCacheId(st, batch, cacheIds, i) ==
  IF i > Len(cacheIds) THEN st
  ELSE IF cacheIds[i].null THEN st
  ELSE IF cacheIds[i].uuid = "" THEN ForEachCacheId(st, batch, cacheIds, i + 1)
  ELSE LET b == batch[i]
           keyed == [st.bids[b] EXCEPT !.videoCacheKey = cacheIds[i].uuid]
           urled == IF keyed.vastUrl = ""
                    THEN [keyed EXCEPT !.vastUrl = getCacheUrl(keyed.videoCacheKey)]
                    ELSE keyed
       IN  ForEachCacheId(StoreState([st.bids EXCEPT ![b] = urled],
                                      Append(st.added, b),
                                      [st.afterBidAdded EXCEPT ![b] = Append(@, Len(st.added) + 1)]),
                          batch, cacheIds, i + 1)

\* Variant: no check of the number of identifiers; the positions both lists
\* have are attributed.
StoreCallback_NoLengthCheck(st, batch, res) ==
  IF res.error THEN st
  ELSE LET n == IF Len(batch) < Len(res.ids) THEN Len(batch) ELSE Len(res.ids)
       IN  ForEachCacheId(st, SubSeq(batch, 1, n), SubSeq(res.ids, 1, n), 1)

\* The callback storeBatch hands to store, lines 212-232.
StoreCallback(st, batch, res) ==
  IF res.error THEN st
  ELSE IF Len(batch) # Len(res.ids) THEN st
  ELSE ForEachCacheId(st, batch, res.ids, 1)

\* Variant: a reply is attributed to the batch of the oldest request still in
\* flight, as if replies came in request order.
Deliver_InRequestOrder(c, reply, res) ==
  /\ c \in DOMAIN calls
  /\ calls[c].status = "inflight"
  /\ LET oldest == CHOOSE d \in DOMAIN calls :
                     /\ calls[d].status = "inflight"
                     /\ \A x \in DOMAIN calls : calls[x].status = "inflight" => d <= x
         st == StoreCallback(StoreState(bids, added, afterBidAdded), calls[oldest].batch, res)
     IN  /\ bids' = st.bids
         /\ added' = st.added
         /\ afterBidAdded' = st.afterBidAdded
  /\ calls' = [calls EXCEPT ![c] = Call(@.batch, @.flush, "done", reply, res, @.puts)]
  /\ UNCHANGED <<cfgVars, batchVars, histVars, localVars>>

\* The reply of ajax to call c reaches storeBatch's callback as `res`.
Deliver(c, reply, res) ==
  /\ c \in DOMAIN calls
  /\ calls[c].status = "inflight"
  /\ LET st == StoreCallback(StoreState(bids, added, afterBidAdded), calls[c].batch, res)
     IN  /\ bids' = st.bids
         /\ added' = st.added
         /\ afterBidAdded' = st.afterBidAdded
  /\ calls' = [calls EXCEPT ![c] = Call(@.batch, @.flush, "done", reply, res, @.puts)]
  /\ UNCHANGED <<cfgVars, batchVars, histVars, localVars>>

\* How the success handler's body reads (history).
ReplyOf(body) ==
  IF ~body.valid THEN "parse" ELSE IF ~body.hasResponses THEN "protocol" ELSE "list"

\* ajax calls the success handler with a response body.
AjaxSuccess(c, body) == Deliver(c, ReplyOf(body), ShimSuccess(body))

\* Variant: a failed request is sent again.
AjaxError_Retry(c) ==
  /\ c \in DOMAIN calls
  /\ calls[c].status = "inflight"
  /\ calls' = StoreBatch([calls EXCEPT ![c] = Call(@.batch, @.flush, "done", "transport",
                                                   ShimError("timeout"), @.puts)],
                         bids, calls[c].batch, calls[c].flush)
  /\ UNCHANGED <<cfgVars, batchVars, bids, added, afterBidAdded, histVars, localVars>>

\* ajax calls the error handler.
AjaxError(c) ==
  \E statusText \in {"timeout"} : Deliver(c, "transport", ShimError(statusText))

\* storeBatch(batch) called with a batch of new bids whose playback URLs are
\* `urls`; the entries' bids are created with the call.
StoreBatchCall(urls) ==
  /\ Len(bids) + Len(urls) <= MaxStored
  /\ bids' = bids \o [i \in DOMAIN urls |-> Bid("A", "a", "c", "<VAST/>", urls[i], <<>>)]
  /\ afterBidAdded' = afterBidAdded \o [i \in DOMAIN urls |-> <<>>]
  /\ calls' = StoreBatch(calls, bids', [i \in DOMAIN urls |-> Len(bids) + i], 0)
  /\ UNCHANGED <<cfgVars, batchVars, added, histVars, localVars>>

\* storeBatch(batch) called with a batch of the new bids `newBids`.
StoreBatchOf(newBids) ==
  /\ Len(bids) + Len(newBids) <= MaxPuts
  /\ bids' = bids \o newBids
  /\ afterBidAdded' = afterBidAdded \o [i \in DOMAIN newBids |-> <<>>]
  /\ calls' = StoreBatch(calls, bids', [i \in DOMAIN newBids |-> Len(bids) + i], 0)
  /\ UNCHANGED <<cfgVars, batchVars, added, histVars, localVars>>

\* --------------------------------------------------------- LocalCacheStore
\* btoa(s): an injective encoding over an alphabet without `$`.
btoa(str) == "b64(" \o str \o ")"

\* const getLocalCacheBidId = (bid) => `${bid.bidderCode}_${bid.adId}`
getLocalCacheBidId(bid) == bid.bidderCode \o "_" \o bid.adId

\* Map.prototype.has / get / set on a set of <<key, value>>;
\* get yields undefined, which String.prototype.replace turns into the text
\* "undefined", for a key that is absent.
MapHas(map, key) == \E e \in map : e[1] = key

MapGet(map, key) == IF MapHas(map, key) THEN (CHOOSE e \in map : e[1] = key)[2] ELSE "undefined"

\* Variant: the entry is added next to an earlier one under the key.
MapSet_Keep(map, key, value) == map \cup {<<key, value>>}

MapSet(map, key, value) == {e \in map : e[1] # key} \cup {<<key, value>>}

\* The bids with an entry under `key` according to the history.
SameKey(S, key) == {b \in S : getLocalCacheBidId(bids[b]) = key}

\* export const storeLocally = (bid) => ..., lines 173-179, for a new bid.
StoreLocally(bid) ==
  /\ Len(bids) < MaxLocalBids
  /\ LET vastValue == getVastValue(bid)
         dataUri == "data:text/xml;base64," \o btoa(vastValue)
         stored == [bid EXCEPT !.vastUrl = dataUri]
     IN  /\ bids' = Append(bids, stored)
         /\ vastsLocalCache' = MapSet(vastsLocalCache, getLocalCacheBidId(stored), dataUri)
         /\ live' = (live \ SameKey(live, getLocalCacheBidId(stored))) \cup {Len(bids) + 1}
  /\ fresh' = fresh \cup {Len(bids) + 1}
  /\ afterBidAdded' = Append(afterBidAdded, <<>>)
  /\ UNCHANGED <<cfgVars, batchVars, calls, added, histVars, gam>>

\* auction.getBidsReceived() of the auction `auctionId`.
getBidsReceived(auctionId) == {b \in DOMAIN bids : bids[b].auctionId = auctionId}

\* Variant: the handler empties the cache.
CleanupHandler_Clear(map, received) == {}

\* The handler subscribed with auctionManager.onExpiry, lines 247-250:
\* vastsLocalCache.delete(getLocalCacheBidId(bid)) for each bid received.
CleanupHandler(map, received) ==
  {e \in map : \A b \in received : getLocalCacheBidId(bids[b]) # e[1]}

\* The auction manager announces the expiry of the auction `auctionId`; every
\* handler subscribed runs (a second run deletes the same keys again).
Expiry(auctionId) ==
  /\ vastsLocalCache' = IF onExpiry > 0
                        THEN CleanupHandler(vastsLocalCache, getBidsReceived(auctionId))
                        ELSE vastsLocalCache
  /\ fresh' = fresh \ getBidsReceived(auctionId)
  /\ live' = IF onExpiry > 0
             THEN {b \in live : \A a \in getBidsReceived(auctionId) :
                     getLocalCacheBidId(bids[a]) # getLocalCacheBidId(bids[b])}
             ELSE live
  /\ UNCHANGED <<cfgVars, batchVars, bids, storeVars, histVars, gam>>

\* getLocalCachedBidWithGam(adTagUrl) up to `await fetch(gamAdTagUrl)`, lines
\* 182-186: hb_bidder and hb_adid are what cust_params holds.  One invocation
\* is followed per behaviour.
GamCall(hb_bidder, hb_adid) ==
  /\ gam = <<>>
  /\ gam' = Append(gam, Gam(hb_bidder, hb_adid, Len(bids), "fetching", FALSE, "", FALSE, ""))
  /\ UNCHANGED <<cfgVars, batchVars, bids, storeVars, histVars, vastsLocalCache, fresh, live>>

\* Lines 193-198 for the fetched text `doc`.
CombinedVast(hb_bidder, hb_adid, doc) ==
  LET bidVastDataUri == MapGet(vastsLocalCache, hb_bidder \o "_" \o hb_adid)
      mockUrl == LOCAL_CACHE_MOCK_URL \o hb_bidder
  IN  ReplaceFirst(doc, mockUrl, bidVastDataUri)

\* getLocalCachedBidWithGam from the fetch's response on, lines 188-198.
GamFetched(g, ok, doc) ==
  /\ g \in DOMAIN gam
  /\ gam[g].status = "fetching"
  /\ gam' = [gam EXCEPT ![g] =
               IF ok
               THEN Gam(@.hb_bidder, @.hb_adid, @.known, "done", TRUE, doc, TRUE,
                        CombinedVast(@.hb_bidder, @.hb_adid, doc))
               ELSE Gam(@.hb_bidder, @.hb_adid, @.known, "done", FALSE, "", FALSE, "")]
  /\ UNCHANGED <<cfgVars, batchVars, bids, storeVars, histVars, vastsLocalCache, fresh, live>>

\* ------------------------------------------------------------------ inputs
\* Playback URLs of the bids submitted to the Batcher ("" is none).
NoUrl == {""}
OwnUrls == {"", "http://x/vast.xml"}

\* Configuration updates: cache.batchSize and cache.batchTimeout, 0 standing
\* for a value that is not a positive number.
BatcherConfigs ==
  [batchSize : 0..MaxK, batchTimeout : {0, 50}, useLocal : {FALSE},
   url : {"https://pbc/cache"}, vasttrack : {FALSE}]

\* Configuration updates where the store responses are enumerated.
StoreConfigs ==
  [batchSize : {MaxBatch}, batchTimeout : {0}, useLocal : {FALSE},
   url : {"https://pbc/cache"}, vasttrack : {FALSE}]

\* The uuid the cache server issues for position i of a request.
Uuid(i) == "k" \o ToString(i)

\* What position i of a "responses" list may hold: null, a rejected key (the
\* empty uuid), or a uuid.
CacheIdsAt(i) == {CacheId(n, u) : <<n, u>> \in {<<TRUE, "">>, <<FALSE, "">>, <<FALSE, Uuid(i)>>}}

\* The "responses" lists of length n.
RECURSIVE ResponsesOfLen(_)
ResponsesOfLen(n) ==
  IF n = 0 THEN {<<>>}
  ELSE {Append(ids, x) : ids \in ResponsesOfLen(n - 1), x \in CacheIdsAt(n)}

\* The lists n uuids long.
UuidList(n) == [i \in 1..n |-> CacheId(FALSE, Uuid(i))]

\* The response bodies to a request of n puts: unparseable, without a
\* "responses" field, with n identifiers, with one too few or one too many.
Bodies(n) ==
  {Body(v, h, <<>>) : <<v, h>> \in {<<FALSE, FALSE>>, <<TRUE, FALSE>>}}
    \cup {Body(TRUE, TRUE, ids) : ids \in ResponsesOfLen(n) \cup {UuidList(n - 1), UuidList(n + 1)}}

\* Configuration updates where the payloads are enumerated: cache.vasttrack
\* and the batching parameters.
TranslateConfigs ==
  [batchSize : {1, 2}, batchTimeout : {0, 50}, useLocal : {FALSE},
   url : {"https://pbc/cache"}, vasttrack : BOOLEAN]

\* The bids whose payloads are enumerated: <<auctionId, vastXml, vastUrl,
\* ttl, customCacheKey>>, with indexed and unknown auctions, VAST carried by
\* the bid or behind its URL, and ttl of 0, 30 and 3600 seconds.
TranslatePairs == {<<"A", "<VAST/>", "", 0, "">>,
                   <<"A", "", "http://x/vast.xml", 30, "">>,
                   <<"X", "<VAST/>", "http://x/vast.xml", 3600, "key1">>,
                   <<"B", "<VAST/>", "", 30, "key2">>}

TranslateBids ==
  {[Bid(p[1], "a", "c", p[2], p[3], <<"http://x/imp">>) EXCEPT
      !.ttl = p[4], !.customCacheKey = p[5]] : p \in TranslatePairs}

\* Configuration updates of the local-cache fallback mode.
LocalConfigs ==
  [batchSize : {1}, batchTimeout : {0}, useLocal : BOOLEAN, url : {"https://pbc/cache"},
   vasttrack : {FALSE}]

\* Bids stored locally: two auctions; <<bidderCode, adId, vastXml, vastUrl>>
\* with pairs of which two give the same key "a_b_c", the VAST carried by the
\* bid or behind its URL.  GamPairs: what the tag URLs name.
LocalAuctions == {"A", "B"}
LocalPairs == {<<"a", "b_c", "<VAST/>", "">>,
               <<"a_b", "c", "", "http://x/vast.xml">>,
               <<"a", "c", "<VAST/>", "">>}
GamPairs == {<<"a", "b_c">>, <<"a", "c">>}

\* Bids stored locally again: <<bidderCode, adId, vastXml, vastUrl,
\* vastImpUrl>>, the pair ("a", "c") with its VAST carried by the bid and
\* behind a URL with an impression tracker, and another pair.
RestorePairs == {<<"a", "c", "<VAST/>", "", <<>>>>,
                 <<"a", "c", "", "http://x/vast.xml", <<"http://x/imp">>>>,
                 <<"b", "c", "<VAST b/>", "http://x/b.xml", <<>>>>}

\* The documents the ad server answers with for bidder code `bidder`: without
\* the placeholder, with it once, with it twice, and with the placeholder of
\* the bidder code "a_b".
GamDocs(bidder) ==
  {"<VAST><Wrapper/></VAST>",
   "<VAST><VASTAdTagURI>" \o LOCAL_CACHE_MOCK_URL \o bidder \o "</VASTAdTagURI></VAST>",
   "<VAST><a>" \o LOCAL_CACHE_MOCK_URL \o bidder \o "</a><b>"
      \o LOCAL_CACHE_MOCK_URL \o bidder \o "</b></VAST>",
   "<VAST><a>" \o LOCAL_CACHE_MOCK_URL \o "a_b" \o "</a></VAST>"}

\* ---------------------------------------------------------- specifications
\* The StoreOrchestrator: storeBatch called with batches of new bids, and the
\* responses of the cache server to its requests.
StoreNext ==
  \/ \E cache \in StoreConfigs : SetConfig(cache)
  \/ \E n \in 1..MaxBatch : \E urls \in [1..n -> OwnUrls] : StoreBatchCall(urls)
  \/ \E c \in DOMAIN calls : \E body \in Bodies(Len(calls[c].batch)) : AjaxSuccess(c, body)
  \/ \E c \in DOMAIN calls : AjaxError(c)

StoreSpec == Init /\ [][StoreNext]_vars

\* The RequestTranslator: storeBatch called with batches of bids of every
\* kind under every configuration, and the responses that attribute uuids.
TranslateNext ==
  \/ \E cache \in TranslateConfigs : SetConfig(cache)
  \/ \E n \in 1..MaxPuts : \E newBids \in [1..n -> TranslateBids] : StoreBatchOf(newBids)
  \/ \E c \in DOMAIN calls :
       AjaxSuccess(c, Body(TRUE, TRUE, UuidList(Len(calls[c].batch))))

TranslateSpec == Init /\ [][TranslateNext]_vars

\* The LocalCacheStore: configuration updates, storeLocally, auction expiry
\* and getLocalCachedBidWithGam.
LocalNext ==
  \/ \E cache \in LocalConfigs : SetConfig(cache)
  \/ \E auctionId \in LocalAuctions, b \in LocalPairs :
       StoreLocally(Bid(auctionId, b[1], b[2], b[3], b[4], <<>>))
  \/ \E auctionId \in LocalAuctions : Expiry(auctionId)
  \/ \E pair \in GamPairs : GamCall(pair[1], pair[2])
  \/ \E g \in DOMAIN gam : \E doc \in GamDocs(gam[g].hb_bidder) : GamFetched(g, TRUE, doc)
  \/ \E g \in DOMAIN gam : GamFetched(g, FALSE, "")

LocalSpec == Init /\ [][LocalNext]_vars

\* storeLocally called again for bids of the same bidder and ad id.
RestoreNext ==
  \/ \E cache \in LocalConfigs : SetConfig(cache)
  \/ \E auctionId \in LocalAuctions, b \in RestorePairs :
       StoreLocally(Bid(auctionId, b[1], b[2], b[3], b[4], b[5]))
  \/ \E auctionId \in LocalAuctions : Expiry(auctionId)

RestoreSpec == Init /\ [][RestoreNext]_vars

\* The Batcher with the flush in steps: a submit may come from inside the
\* store function.
ReentrantNext ==
  \/ \E cache \in BatcherConfigs : ~Flushing /\ SetConfig(cache)
  \/ \E u \in NoUrl : SubmitInSteps(Bid("A", "a", "c", "<VAST/>", u, <<>>))
  \/ TimerFireInSteps
  \/ CacheNextBatch
  \/ FlushEnd

ReentrantSpec == Init /\ [][ReentrantNext]_vars

\* The Batcher alone: configuration updates, submits and the debounce timer.
BatcherNext ==
  \/ \E cache \in BatcherConfigs : SetConfig(cache)
  \/ \E u \in NoUrl : Submit(Bid("A", "a", "c", "<VAST/>", u, <<>>))
  \/ TimerFire

BatcherSpec == Init /\ [][BatcherNext]_vars

\* The Batcher with the timer's fairness: a callback handed to setTimeout is
\* eventually run.
FairBatcherSpec == BatcherSpec /\ WF_vars(TimerFire)

\* ------------------------------------------------------------------ claims
\* The calls issued by flush number f, in issue order.
CallsOfFlush(f) == SelectSeq(calls, LAMBDA c : c.flush = f)

BatchesOf(cs) == [i \in DOMAIN cs |-> cs[i].batch]

\* C1 (as stated): in every reachable state no accumulated batch holds more
\* entries than the configured maximum batch size, and no step hands the
\* store call a batch that holds more than the maximum configured then.
C1_Original ==
  [][/\ batchSize' # Undefined =>
          \A i \in DOMAIN batches' : Len(batches'[i]) <= batchSize'
     /\ batchSize # Undefined =>
          \A c \in (Len(calls) + 1)..Len(calls') : Len(calls'[c].batch) <= batchSize]_vars

\* C1 (amended): no accumulated batch, and no batch handed to the store call,
\* holds more entries than the largest maximum batch size that was in force at
\* a submit of the batch's debounce window.
C1_WithinWindowMaximum ==
  /\ Undefined \notin winSizes =>
       \A i \in DOMAIN batches : Len(batches[i]) <= MaxOf(winSizes)
  /\ \A c \in DOMAIN calls :
       Undefined \notin flushes[calls[c].flush].sizes =>
         Len(calls[c].batch) <= MaxOf(flushes[calls[c].flush].sizes)

\* C1 witness: a batch filled to a maximum of at least 2 was handed to the
\* store call after a window in which the maximum changed, and the maximum
\* configured now is smaller than the batch.
C1_Witness ==
  \E c \in DOMAIN calls :
    /\ Cardinality(flushes[calls[c].flush].sizes) >= 2
    /\ Undefined \notin flushes[calls[c].flush].sizes
    /\ Len(calls[c].batch) = MaxOf(flushes[calls[c].flush].sizes)
    /\ batchSize < Len(calls[c].batch)

\* C2: a debounce window (delay > 0) whose submits all saw maximum batch size
\* k ends with exactly ceil(count/k) store calls, each of at most k entries,
\* holding together the count submitted bids, each once.
C2_WindowCoalesces ==
  \A f \in DOMAIN flushes :
    (flushes[f].delayed /\ Cardinality(flushes[f].sizes) = 1) =>
      LET k == MaxOf(flushes[f].sizes)
          cs == BatchesOf(CallsOfFlush(f))
          all == Flatten(cs)
      IN  /\ Len(cs) = CeilDiv(flushes[f].count, k)
          /\ \A i \in DOMAIN cs : Len(cs[i]) <= k
          /\ Len(all) = flushes[f].count
          /\ \A i, j \in DOMAIN all : all[i] = all[j] => i = j

\* C2 witness: a window with k = 2 and count = 3 was flushed by the timer
\* (two calls).
C2_Witness ==
  \E f \in DOMAIN flushes :
    /\ flushes[f].delayed
    /\ flushes[f].sizes = {2}
    /\ flushes[f].count = 3
    /\ Len(CallsOfFlush(f)) = 2

\* Every submit so far saw a configured maximum batch size of 1.
AlwaysSizeOne ==
  /\ winSizes \subseteq {1}
  /\ \A f \in DOMAIN flushes : flushes[f].sizes = {1}

\* C3: with maximum batch size 1 at every submit, every store call holds
\* exactly one bid, and once no debounce timer is pending exactly N calls have
\* been issued for the N submitted bids.
C3_OneCallPerBid ==
  AlwaysSizeOne =>
    /\ \A c \in DOMAIN calls : Len(calls[c].batch) = 1
    /\ Len(calls) + SumLen(batches) = Len(bids)
    /\ timer = 0 => Len(calls) = Len(bids)

\* C3 witness: three bids, maximum 1, flushed by a timer and without one.
C3_Witness ==
  /\ AlwaysSizeOne
  /\ timer = 0
  /\ Len(bids) >= 3
  /\ \E f, g \in DOMAIN flushes : flushes[f].delayed /\ ~flushes[g].delayed
  /\ \E f \in DOMAIN flushes : flushes[f].count >= 2

\* ------------------------------------------------ claims: StoreOrchestrator
\* Call c got a response whose "responses" list reached storeBatch's callback.
GotList(c) == calls[c].status = "done" /\ calls[c].reply = "list"

Matched(c) == GotList(c) /\ Len(calls[c].ids) = Len(calls[c].batch)

\* The step delivers the reply to call c.
Delivered(c) == calls[c].status = "inflight" /\ calls'[c].status = "done"

\* C4: after a response whose identifier list differs in length from the
\* batch, no bid of the batch has a cache key or was passed to the acceptance
\* path, and the step that delivers such a response changes no bid of the batch
\* (its playback URL included).
C4_MismatchRejectsBatch ==
  /\ [](\A c \in DOMAIN calls :
          (GotList(c) /\ Len(calls[c].ids) # Len(calls[c].batch)) =>
            \A i \in DOMAIN calls[c].batch :
              /\ bids[calls[c].batch[i]].videoCacheKey = NoKey
              /\ calls[c].batch[i] \notin Range(added))
  /\ [][\A c \in DOMAIN calls :
          (Delivered(c) /\ calls'[c].reply = "list"
             /\ Len(calls'[c].ids) # Len(calls[c].batch)) =>
            /\ \A i \in DOMAIN calls[c].batch :
                 bids'[calls[c].batch[i]] = bids[calls[c].batch[i]]
            /\ added' = added]_vars

\* C4 witness: a batch of two got a list of three uuids, and a batch of one
\* an empty list.
C4_Witness ==
  /\ \E c \in DOMAIN calls :
       GotList(c) /\ Len(calls[c].batch) = 2 /\ Len(calls[c].ids) = 3
  /\ \E c \in DOMAIN calls :
       GotList(c) /\ Len(calls[c].batch) = 1 /\ Len(calls[c].ids) = 0

\* C5 (as stated): in a response with as many identifiers as the batch has
\* entries and an empty-string identifier at some position, the bid at an
\* empty-string position is not passed on and gets no key, and the bid at
\* every position that holds a non-empty uuid has that uuid as its key and was
\* passed to the acceptance path.
C5_Original ==
  \A c \in DOMAIN calls :
    (Matched(c) /\ \E i \in DOMAIN calls[c].ids :
                     ~calls[c].ids[i].null /\ calls[c].ids[i].uuid = "") =>
      \A j \in DOMAIN calls[c].ids :
        LET id == calls[c].ids[j]
            b == calls[c].batch[j]
        IN  /\ (~id.null /\ id.uuid = "") =>
                 (b \notin Range(added) /\ bids[b].videoCacheKey = NoKey)
            /\ (~id.null /\ id.uuid # "") =>
                 (b \in Range(added) /\ bids[b].videoCacheKey = id.uuid)

\* C6: after a failed store call (transport error, unparseable body, body
\* without "responses") no bid of the batch has a cache key or was passed to
\* the acceptance path, and no two requests were ever issued for one batch.
C6_FailureDiscardsBatch ==
  /\ \A c \in DOMAIN calls :
       (calls[c].status = "done" /\ calls[c].reply \in {"transport", "parse", "protocol"}) =>
         \A i \in DOMAIN calls[c].batch :
           /\ bids[calls[c].batch[i]].videoCacheKey = NoKey
           /\ calls[c].batch[i] \notin Range(added)
  /\ \A c, d \in DOMAIN calls :
       c # d => Range(calls[c].batch) \cap Range(calls[d].batch) = {}

\* C6 witness: batches of two failed in each of the three ways.
C6_Witness ==
  \A r \in {"transport", "parse", "protocol"} :
    \E c \in DOMAIN calls : calls[c].status = "done" /\ calls[c].reply = r

\* C7: after a response with as many identifiers as the batch has entries,
\* every bid of the batch that was passed to the acceptance path has the uuid
\* at its own position as cache key; and in the step that delivers the
\* response such a bid's playback URL becomes the retrieval URL of that uuid
\* if it was empty, and stays as it was otherwise.
C7_KeysByPosition ==
  /\ [](\A c \in DOMAIN calls :
          Matched(c) =>
            \A i \in DOMAIN calls[c].batch :
              calls[c].batch[i] \in Range(added) =>
                /\ ~calls[c].ids[i].null
                /\ bids[calls[c].batch[i]].videoCacheKey = calls[c].ids[i].uuid)
  /\ [][\A c \in DOMAIN calls :
          (Delivered(c) /\ calls'[c].reply = "list"
             /\ Len(calls'[c].ids) = Len(calls[c].batch)) =>
            \A i \in DOMAIN calls[c].batch :
              LET b == calls[c].batch[i]
              IN  b \in Range(added') =>
                    bids'[b].vastUrl =
                      IF bids[b].vastUrl = ""
                      THEN cacheUrl \o "?uuid=" \o calls'[c].ids[i].uuid
                      ELSE bids[b].vastUrl]_vars

\* C7 witness: a batch of two, one bid with a playback URL of its own and one
\* without, both passed on with their uuids.
C7_Witness ==
  \E c \in DOMAIN calls :
    /\ Matched(c)
    /\ Len(calls[c].batch) = 2
    /\ \A i \in 1..2 : calls[c].batch[i] \in Range(added)
    /\ bids[calls[c].batch[1]].vastUrl = "http://x/vast.xml"
    /\ bids[calls[c].batch[2]].vastUrl = "https://pbc/cache?uuid=k2"

\* ------------------------------------------------------ claims: the timer
\* Bid b waits in an accumulated batch.
Queued(b) == \E i \in DOMAIN batches : b \in Range(batches[i])

\* Bid b was handed to a store call.
Stored(b) == \E c \in DOMAIN calls : b \in Range(calls[c].batch)

\* C8: with a fair timer, a queued entry always has a pending timer, every
\* debounce window that started ends, and every entry that is queued is
\* eventually handed to a store call.
C8_TimerFlushesAll ==
  /\ [](\A b \in 1..MaxBids : Queued(b) => (timer > 0 /\ debouncing))
  /\ (debouncing ~> ~debouncing)
  /\ \A b \in 1..MaxBids : Queued(b) ~> Stored(b)

\* C8 witness: a timer ended a window of at least two entries, all of them
\* handed to store calls, and a new window is open.
C8_Witness ==
  /\ \E f \in DOMAIN flushes : flushes[f].delayed /\ flushes[f].count >= 2
  /\ \E b \in 1..MaxBids : Queued(b)
  /\ \E b \in 1..MaxBids : Stored(b)

\* -------------------------------------------------- claims: LocalCacheStore
Keys(map) == {e[1] : e \in map}

\* The keys of the bids of auction a.
AuctionKeys(a) == {getLocalCacheBidId(bids[b]) : b \in getBidsReceived(a)}

\* The step is the handled expiry notification of auction a.
ExpiryHandled(a) == cleanupHandler /\ Expiry(a)

\* C9 (as stated): after the handled expiry notification of auction A no bid
\* of A has an entry, and the entry of every bid of another auction is still
\* there with its value.
C9_Original ==
  [][\A a \in LocalAuctions :
       ExpiryHandled(a) =>
         /\ \A b \in getBidsReceived(a) :
              getLocalCacheBidId(bids[b]) \notin Keys(vastsLocalCache')
         /\ \A b \in DOMAIN bids :
              (bids[b].auctionId # a /\ MapHas(vastsLocalCache, getLocalCacheBidId(bids[b]))) =>
                <<getLocalCacheBidId(bids[b]),
                  MapGet(vastsLocalCache, getLocalCacheBidId(bids[b]))>> \in vastsLocalCache']_vars

\* C9 (amended): after the handled expiry notification of auction A no bid of
\* A has an entry, and every entry whose key is not the key of a bid of A is
\* still there with its value; nothing is added.
C9_ExpiryRemovesAuctionKeys ==
  [][\A a \in LocalAuctions :
       ExpiryHandled(a) =>
         /\ \A b \in getBidsReceived(a) :
              getLocalCacheBidId(bids[b]) \notin Keys(vastsLocalCache')
         /\ \A e \in vastsLocalCache : e[1] \notin AuctionKeys(a) => e \in vastsLocalCache'
         /\ vastsLocalCache' \subseteq vastsLocalCache]_vars

\* C9 witness: the handler is subscribed, the auction of a stored bid expired
\* and its entry is gone, and the entry of a bid of the other auction is there.
C9_Witness ==
  /\ cleanupHandler
  /\ \E b \in DOMAIN bids :
       /\ b \notin fresh
       /\ b \notin live
       /\ ~MapHas(vastsLocalCache, getLocalCacheBidId(bids[b]))
       /\ \E o \in live :
            /\ bids[o].auctionId # bids[b].auctionId
            /\ o \in fresh
            /\ <<getLocalCacheBidId(bids[o]), bids[o].vastUrl>> \in vastsLocalCache

\* `res` is `doc` with its first occurrence of `pat` replaced by `by`.
FirstReplaced(doc, pat, by, res) ==
  \E at \in 1..Len(doc) :
    /\ at + Len(pat) - 1 <= Len(doc)
    /\ SubSeq(doc, at, at + Len(pat) - 1) = pat
    /\ \A j \in 1..(at - 1) : SubSeq(doc, j, j + Len(pat) - 1) # pat
    /\ res = SubSeq(doc, 1, at - 1) \o by \o SubSeq(doc, at + Len(pat), Len(doc))

Contains(doc, pat) ==
  \E at \in 1..Len(doc) :
    at + Len(pat) - 1 <= Len(doc) /\ SubSeq(doc, at, at + Len(pat) - 1) = pat

\* The step completes invocation g with a fetched document.
GamCompletes(g) == gam[g].status = "fetching" /\ gam'[g].status = "done" /\ gam'[g].ok

\* Invocation g names bid b, stored before the call, and the fetched document
\* holds the placeholder for b's bidder code.
GamNames(g, b) ==
  /\ b <= gam[g].known
  /\ bids[b].bidderCode = gam[g].hb_bidder
  /\ bids[b].adId = gam[g].hb_adid
  /\ Contains(gam'[g].doc, LOCAL_CACHE_MOCK_URL \o bids[b].bidderCode)

\* The document returned is the fetched one with the first placeholder
\* replaced by the data URI storeLocally gave bid b.
GamSubstitutes(g, b) ==
  /\ gam'[g].returned
  /\ FirstReplaced(gam'[g].doc, LOCAL_CACHE_MOCK_URL \o bids[b].bidderCode,
                   bids[b].vastUrl, gam'[g].result)

\* C10 (as stated): for a bid stored before the call whose own auction got no
\* expiry notification since, the invocation that names it returns the
\* fetched document with the first placeholder replaced by the bid's data URI.
C10_Original ==
  [][\A g \in DOMAIN gam : GamCompletes(g) =>
       \A b \in fresh : GamNames(g, b) => GamSubstitutes(g, b)]_vars

\* C10 (amended): the same for a bid whose key was, since storeLocally stored
\* it, neither stored again nor removed by a handled expiry notification of
\* an auction that holds a bid with that key.
C10_StoreThenResolve ==
  [][\A g \in DOMAIN gam : GamCompletes(g) =>
       \A b \in live : GamNames(g, b) => GamSubstitutes(g, b)]_vars

\* C10 witness: an invocation returned a document in which one of two
\* placeholders was replaced by the data URI of a stored bid that it names.
C10_Witness ==
  \E g \in DOMAIN gam : \E b \in live :
    /\ gam[g].status = "done" /\ gam[g].returned
    /\ b <= gam[g].known
    /\ bids[b].bidderCode = gam[g].hb_bidder /\ bids[b].adId = gam[g].hb_adid
    /\ gam[g].doc # gam[g].result
    /\ Contains(gam[g].result, bids[b].vastUrl)
    /\ Contains(gam[g].result, LOCAL_CACHE_MOCK_URL \o bids[b].bidderCode)

\* C11 (as stated): when an invocation fetched its document and the local
\* cache holds no entry under the key the tag URL names, the document returned
\* is the fetched document unchanged, also when it holds the placeholder.
C11_Original ==
  [][\A g \in DOMAIN gam :
       (GamCompletes(g)
          /\ ~MapHas(vastsLocalCache, gam[g].hb_bidder \o "_" \o gam[g].hb_adid)) =>
         (gam'[g].returned /\ gam'[g].result = gam'[g].doc)]_vars

\* ---------------------------------------------- claims: concurrent flushes
\* The positions of call c's batch that its reply attributes: the reply is a
\* list as long as the batch, and the position holds a non-empty uuid with no
\* null element before it.
Attributed(c) ==
  IF ~Matched(c) THEN {}
  ELSE {i \in DOMAIN calls[c].batch :
          /\ \A j \in 1..i : ~calls[c].ids[j].null
          /\ calls[c].ids[i].uuid # ""}

\* The bids passed to the acceptance path, restricted to those of batch.
AddedOf(seq, batch) == SelectSeq(seq, LAMBDA b : b \in Range(batch))

\* C12: with replies arriving in any order, no bid is in two requests, the
\* step that delivers the reply to call c changes and admits bids of c's batch
\* only, and after it the bids of the batch that were admitted and the keys
\* they carry are those the reply itself attributes, each admitted once:
\* what the replies do does not depend on their order.
C12_RepliesCommute ==
  /\ [](\A c, d \in DOMAIN calls :
          c # d => Range(calls[c].batch) \cap Range(calls[d].batch) = {})
  /\ [](\A c \in DOMAIN calls :
          calls[c].status = "done" =>
            \A i \in DOMAIN calls[c].batch :
              LET b == calls[c].batch[i]
              IN  /\ bids[b].videoCacheKey =
                       IF i \in Attributed(c) THEN calls[c].ids[i].uuid ELSE NoKey
                  /\ Len(AddedOf(added, <<b>>)) = IF i \in Attributed(c) THEN 1 ELSE 0)
  /\ [](\A c \in DOMAIN calls :
          calls[c].status = "inflight" =>
            \A i \in DOMAIN calls[c].batch :
              /\ bids[calls[c].batch[i]].videoCacheKey = NoKey
              /\ calls[c].batch[i] \notin Range(added))
  /\ [][\A c \in DOMAIN calls :
          Delivered(c) =>
            /\ \A b \in DOMAIN bids : b \notin Range(calls[c].batch) => bids'[b] = bids[b]
            /\ \E more \in UNION {[1..n -> Range(calls[c].batch)] : n \in 0..Len(calls[c].batch)} :
                 added' = added \o more
            /\ \A d \in DOMAIN calls : d # c => calls'[d] = calls[d]]_vars

\* C12 witness: two requests were in flight together and the reply to the
\* later one came first, both replies admitting a bid.
C12_Witness ==
  \E c, d \in DOMAIN calls :
    /\ c < d
    /\ Matched(c) /\ Matched(d)
    /\ \E i, j \in DOMAIN added :
         /\ i < j
         /\ added[i] \in Range(calls[d].batch)
         /\ added[j] \in Range(calls[c].batch)

\* ------------------------------------------------- claims: delay of zero
\* The step is a submit.
Submits == Len(bids') = Len(bids) + 1

\* The step hands the store call exactly one batch, holding the bid just
\* submitted, and leaves nothing queued.
StoresAlone ==
  /\ Len(calls') = Len(calls) + 1
  /\ calls'[Len(calls')].batch = <<Len(bids')>>
  /\ batches' = << <<>> >>

\* C13 (as stated): a submit made with a debounce delay of zero leads to its
\* own store call holding exactly the submitted entry, whatever the maximum
\* batch size, and leaves no entry waiting.
C13_Original ==
  [][(Submits /\ batchTimeout = 0) => StoresAlone]_vars

\* C13 (amended): the same for a submit made with a debounce delay of zero
\* while no debounce window is active.
C13_ZeroDelayStoresAlone ==
  [][(Submits /\ batchTimeout = 0 /\ ~debouncing) => StoresAlone]_vars

\* C13 witness: with a delay of zero and a maximum batch size of 2 or more,
\* two submits were each flushed alone, without a timer.
C13_Witness ==
  /\ batchTimeout = 0
  /\ batchSize >= 2
  /\ \E f, g \in DOMAIN flushes :
       /\ f < g
       /\ \A h \in {f, g} :
            /\ ~flushes[h].delayed
            /\ flushes[h].count = 1
            /\ \A k \in flushes[h].sizes : k >= 2
            /\ Len(CallsOfFlush(h)) = 1
            /\ Len(CallsOfFlush(h)[1].batch) = 1
  /\ batches = << <<>> >>

\* ---------------------------------------------- claims: RequestTranslator
\* C14: in every request, the ttlseconds of the payload at each position is
\* the ttl of the bid at that position plus 15, whatever the configuration
\* and the other bids of the batch.
C14_TtlPlusBuffer ==
  \A c \in DOMAIN calls :
    /\ Len(calls[c].puts) = Len(calls[c].batch)
    /\ \A i \in DOMAIN calls[c].batch :
         calls[c].puts[i].ttlseconds = bids[calls[c].batch[i]].ttl + 15

\* C14 witness: a request of two bids with ttl 0 and 3600, issued with
\* vasttrack on, the second bid with a key of its own and no indexed auction.
C14_Witness ==
  \E c \in DOMAIN calls :
    /\ Len(calls[c].batch) = 2
    /\ calls[c].puts[1].ttlseconds = 15
    /\ calls[c].puts[2].ttlseconds = 3615
    /\ calls[c].puts[1].aid # "undefined"
    /\ calls[c].puts[2].key = "key1"
    /\ calls[c].puts[2].timestamp = Undefined

\* ------------------------------------------- claims: one window at a time
\* The step runs a callback handed to setTimeout.
TimerFires == timer' = timer - 1

\* C15: at most one flush is scheduled, exactly while a window is active; a
\* submit made while a window is active schedules nothing and issues no
\* call; the timer's callback hands every accumulated batch to a store call of
\* its own, in order, and leaves a single empty batch and the flag cleared;
\* and the next submit under a positive delay starts a window again.
C15_OneWindow ==
  /\ [](timer <= 1 /\ (debouncing <=> timer = 1))
  /\ [][(Submits /\ debouncing) =>
          (timer' = timer /\ debouncing' /\ calls' = calls /\ flushes' = flushes)]_vars
  /\ [][TimerFires =>
          /\ Len(calls') = Len(calls) + Len(batches)
          /\ \A i \in DOMAIN batches : calls'[Len(calls) + i].batch = batches[i]
          /\ \A c \in DOMAIN calls : calls'[c] = calls[c]
          /\ batches' = << <<>> >>
          /\ ~debouncing']_vars
  /\ [][(Submits /\ ~debouncing /\ batchTimeout > 0) =>
          (debouncing' /\ timer' = 1 /\ calls' = calls)]_vars

\* C15 witness: a window of two batches ended with its timer, a second
\* window was started by the next submit, and it ended too.
C15_Witness ==
  /\ \E f, g \in DOMAIN flushes :
       /\ f < g
       /\ flushes[f].delayed /\ flushes[g].delayed
       /\ Len(CallsOfFlush(f)) >= 2
  /\ ~debouncing
  /\ batches = << <<>> >>

\* -------------------------------------------- claims: completion callback
\* C16: the completion callback of an entry is invoked at most once, exactly
\* if the entry's bid was passed to the acceptance path (which happens at most
\* once), and then after the bid was passed; it is never invoked for a bid of
\* a failed call, of a response of the wrong length, or at the position of an
\* empty-string identifier.
C16_CallbackIffAdmitted ==
  /\ \A b \in DOMAIN bids :
       /\ Len(afterBidAdded[b]) <= 1
       /\ Len(AddedOf(added, <<b>>)) <= 1
       /\ (Len(afterBidAdded[b]) = 1) <=> (b \in Range(added))
       /\ \A k \in DOMAIN afterBidAdded[b] :
            /\ afterBidAdded[b][k] <= Len(added)
            /\ b \in Range(SubSeq(added, 1, afterBidAdded[b][k]))
  /\ \A c \in DOMAIN calls :
       calls[c].status = "done" =>
         \A i \in DOMAIN calls[c].batch :
           (\/ calls[c].reply # "list"
            \/ Len(calls[c].ids) # Len(calls[c].batch)
            \/ (~calls[c].ids[i].null /\ calls[c].ids[i].uuid = "")) =>
             afterBidAdded[calls[c].batch[i]] = <<>>

\* C16 witness: a batch of two got a rejected key and a uuid, the second
\* bid's callback ran once after the bid was passed on, and a call failed.
C16_Witness ==
  /\ \E c \in DOMAIN calls :
       /\ Matched(c)
       /\ Len(calls[c].batch) = 2
       /\ ~calls[c].ids[1].null /\ calls[c].ids[1].uuid = ""
       /\ afterBidAdded[calls[c].batch[1]] = <<>>
       /\ Len(afterBidAdded[calls[c].batch[2]]) = 1
       /\ calls[c].batch[2] \in Range(added)
  /\ \E c \in DOMAIN calls : calls[c].status = "done" /\ calls[c].reply = "transport"

\* ------------------------------------------------- claims: storeLocally
\* The entries of the map under `key`.
EntriesAt(map, key) == {e \in map : e[1] = key}

\* What storeLocally(bid) has to do, for the bid as it is handed over: the
\* content is the payload value the RequestTranslator computes for it, that
\* is vastXml when non-empty and the wrapper of vastUrl and the trackers
\* otherwise; the bid's playback URL becomes the data URI of that content and
\* nothing else of the bid changes; and the map holds under the bid's key
\* that data URI and nothing else, other keys being left alone.
StoresContentOf(bid) ==
  LET content == toStorageRequest(bid).value
      dataUri == "data:text/xml;base64," \o btoa(content)
      key == bid.bidderCode \o "_" \o bid.adId
      n == Len(bids) + 1
  IN  /\ content = IF bid.vastXml # "" THEN bid.vastXml
                   ELSE wrapURI(bid.vastUrl, bid.vastImpUrl)
      /\ Len(bids') = n
      /\ bids'[n] = [bid EXCEPT !.vastUrl = dataUri]
      /\ EntriesAt(vastsLocalCache', key) = {<<key, dataUri>>}
      /\ \A e \in vastsLocalCache : e[1] # key => e \in vastsLocalCache'
      /\ \A e \in vastsLocalCache' : e[1] # key => e \in vastsLocalCache

\* C17: storeLocally(bid) stores the content the RequestTranslator would
\* send for the bid as data URI in the bid and in the local cache; and no key
\* ever has two entries, the one it has being the last value stored under
\* it.
C17_StoreLocallyLastWins ==
  /\ [][\A auctionId \in LocalAuctions, b \in RestorePairs :
          StoreLocally(Bid(auctionId, b[1], b[2], b[3], b[4], b[5])) =>
            StoresContentOf(Bid(auctionId, b[1], b[2], b[3], b[4], b[5]))]_vars
  /\ [](\A e, f \in vastsLocalCache : e[1] = f[1] => e = f)

\* C17 witness: two bids of the same bidder and ad id were stored with
\* different content, and the map holds for them the one entry of the second.
C17_Witness ==
  \E b, c \in DOMAIN bids :
    /\ b < c
    /\ bids[b].bidderCode = bids[c].bidderCode /\ bids[b].adId = bids[c].adId
    /\ bids[b].vastUrl # bids[c].vastUrl
    /\ bids[c].vastXml = ""
    /\ EntriesAt(vastsLocalCache, getLocalCacheBidId(bids[c]))
         = {<<getLocalCacheBidId(bids[c]), bids[c].vastUrl>>}

\* ----------------------------------------------- claims: re-entrant submit
\* C18 (as stated): also when submits come from inside a running flush, every
\* submitted entry is queued or was handed to a store call, no entry is ever
\* in two store calls or twice in one, and no store call is issued for an
\* empty batch.
C18_Original ==
  /\ \A b \in DOMAIN bids : Queued(b) \/ Stored(b)
  /\ \A c, d \in DOMAIN calls :
       c # d => Range(calls[c].batch) \cap Range(calls[d].batch) = {}
  /\ \A c \in DOMAIN calls :
       /\ calls[c].batch # <<>>
       /\ \A i, j \in DOMAIN calls[c].batch : calls[c].batch[i] = calls[c].batch[j] => i = j

\* ------------------------------------------------ claims: submission order
\* C19: the batches of the store calls in issue order, followed by the
\* batches that are queued, hold the submitted entries in the order of their
\* submission, each once; and the calls of a flush follow each other.
C19_SubmissionOrder ==
  /\ Flatten(BatchesOf(calls)) \o Flatten(batches) = [b \in 1..Len(bids) |-> b]
  /\ \A c, d \in DOMAIN calls : c <= d => calls[c].flush <= calls[d].flush

\* C19 witness: a flush issued two calls, the first for a batch of two
\* entries, the second for the entry submitted last.
C19_Witness ==
  \E f \in DOMAIN flushes :
    /\ Len(CallsOfFlush(f)) = 2
    /\ Len(CallsOfFlush(f)[1].batch) = 2
    /\ CallsOfFlush(f)[2].batch = <<Len(bids)>>

\* C20: the expiry handler is subscribed at most once however many updates
\* are delivered, and only by an update that enables the local mode; the
\* subscription is never withdrawn, also when a later update disables the
\* mode; the expiry of an auction leaves the local cache as it is while no
\* handler is subscribed, and removes the keys of the auction's bids once one
\* is, whatever the mode then is.
C20_SubscribedOnce ==
  /\ [](onExpiry <= 1 /\ (cleanupHandler <=> onExpiry = 1))
  /\ [][/\ onExpiry' >= onExpiry
        /\ onExpiry' # onExpiry => useLocal'
        /\ \A a \in LocalAuctions :
             Expiry(a) =>
               IF onExpiry = 0
               THEN vastsLocalCache' = vastsLocalCache
               ELSE AuctionKeys(a) \cap Keys(vastsLocalCache') = {}]_vars

\* C20 witness: the handler is subscribed and the mode has been disabled
\* again; the entry of one bid outlived its auction's expiry, which came
\* before the subscription, and the entry of another bid was removed by its
\* auction's expiry.
C20_Witness ==
  /\ onExpiry = 1
  /\ ~useLocal
  /\ \E b, c \in DOMAIN bids :
       /\ b \notin fresh
       /\ b \in live
       /\ <<getLocalCacheBidId(bids[b]), bids[b].vastUrl>> \in vastsLocalCache
       /\ c \notin fresh
       /\ c \notin live
       /\ ~MapHas(vastsLocalCache, getLocalCacheBidId(bids[c]))

====
